---- MODULE Spec2Model ----
(***************************************************************************)
(* Health_Tracker (src/app.py): the calorie value normalizer               *)
(* (parse_calorie_value), the aggregation engine (calculate_macros,        *)
(* safe_sum) and the status classifier (get_status).                       *)
(*                                                                         *)
(* Numbers are exact rationals [k, n, d] (k = "num") plus the float NaN    *)
(* (k = "nan").  IEEE rounding of products and infinities are not          *)
(* modelled: a comparison such as actual <= target * 0.8 is decided on     *)
(* the exact product.  Text is a sequence of one-character strings.        *)
(***************************************************************************)
EXTENDS Integers, Sequences, FiniteSets, TLC

VARIABLES pc,          \* "call" before the function under study ran, "return" after
          cal_in,      \* argument of parse_calorie_value
          cal_out,     \* its return value
          st_actual,   \* get_status: actual
          st_target,   \* get_status: target
          st_kind,     \* get_status: nutrient_type
          st_out,      \* get_status: returned band
          df,          \* the meal collection handed to calculate_macros
          macros,      \* the dictionary calculate_macros returned
          db,          \* health_tracker.db: tables, their columns, rowid sequences
          page,        \* the page the sidebar radio selects
          metrics,     \* the breakdown the last script run rendered
          all_meals_df, \* the rows the Settings page offers as CSV
          sessions,    \* the library call each concurrent session is in
          calc,        \* the net calorie balance the burn calculator shows
          last         \* the operation the last script run handled, and its result

app_vars == <<db, page, metrics, all_meals_df, calc, sessions, last>>

vars == <<pc, cal_in, cal_out, st_actual, st_target, st_kind, st_out, df, macros,
          db, page, metrics, all_meals_df, calc, sessions, last>>

----------------------------------------------------------------------------
(* Bounds *)

MaxLen == 4              \* longest enumerated calorie string
MaxTargetHalves == 4     \* targets range over 1/2 .. MaxTargetHalves/2
MaxMeals == 2            \* longest meal collection

----------------------------------------------------------------------------
(* Float values: exact rationals and NaN *)

\* F applied to the value of e: e is evaluated once
Let(e, F(_)) == CHOOSE r \in {F(v) : v \in {e}} : TRUE

Abs(i) == IF i < 0 THEN -i ELSE i

RECURSIVE GCD(_, _)
GCD(a, b) == IF b = 0 THEN a ELSE GCD(b, a % b)

\* the rational n/d (d > 0) in lowest terms
Rat(n, d) ==
    Let(<<n, d>>,
        LAMBDA nd : Let(GCD(Abs(nd[1]), nd[2]),
                        LAMBDA g : [k |-> "num", n |-> nd[1] \div g, d |-> nd[2] \div g]))

NaN == [k |-> "nan", n |-> 0, d |-> 1]
Zero == Rat(0, 1)
IsNaN(x) == x.k = "nan"

Neg(x) == IF IsNaN(x) THEN NaN ELSE Rat(-x.n, x.d)
Add(x, y) == IF IsNaN(x) \/ IsNaN(y) THEN NaN
             ELSE Rat(x.n * y.d + y.n * x.d, x.d * y.d)
Mul(x, y) == IF IsNaN(x) \/ IsNaN(y) THEN NaN
             ELSE Rat(x.n * y.n, x.d * y.d)
\* x / c for an integer c > 0
DivInt(x, c) == IF IsNaN(x) THEN NaN ELSE Rat(x.n, x.d * c)

\* IEEE comparisons: every comparison with NaN is false
Sub(x, y) == Add(x, Neg(y))

Leq(x, y) == ~IsNaN(x) /\ ~IsNaN(y) /\ x.n * y.d <= y.n * x.d
Lt(x, y)  == ~IsNaN(x) /\ ~IsNaN(y) /\ x.n * y.d < y.n * x.d
Geq(x, y) == Leq(y, x)
Gt(x, y)  == Lt(y, x)

----------------------------------------------------------------------------
(* Text *)

Range(s) == {s[i] : i \in DOMAIN s}

Digits == {"0", "1", "2", "3", "4", "5", "6", "7", "8", "9"}
Whitespace == {" ", "\t", "\n"}

DigitVal(c) == CASE c = "0" -> 0 [] c = "1" -> 1 [] c = "2" -> 2 [] c = "3" -> 3
                 [] c = "4" -> 4 [] c = "5" -> 5 [] c = "6" -> 6 [] c = "7" -> 7
                 [] c = "8" -> 8 [] c = "9" -> 9

RECURSIVE DigitsVal(_)
DigitsVal(s) == IF s = <<>> THEN 0
                ELSE DigitsVal(SubSeq(s, 1, Len(s) - 1)) * 10 + DigitVal(s[Len(s)])

RECURSIVE Pow10(_)
Pow10(e) == IF e = 0 THEN 1 ELSE 10 * Pow10(e - 1)

\* index of the first occurrence of c in s, 0 when absent
IndexOf(s, c) == IF c \in Range(s)
                 THEN CHOOSE i \in DOMAIN s : s[i] = c /\ \A j \in 1..(i - 1) : s[j] # c
                 ELSE 0

\* str.strip()
RECURSIVE LStrip(_)
LStrip(s) == IF s # <<>> /\ s[1] \in Whitespace THEN LStrip(Tail(s)) ELSE s
RECURSIVE RStrip(_)
RStrip(s) == IF s # <<>> /\ s[Len(s)] \in Whitespace
             THEN RStrip(SubSeq(s, 1, Len(s) - 1)) ELSE s
Strip(s) == RStrip(LStrip(s))

\* str.split(sep): the segments between every occurrence of sep
RECURSIVE Split(_, _)
Split(s, sep) ==
    Let(IndexOf(s, sep),
        LAMBDA i : IF i = 0 THEN <<s>>
                   ELSE <<SubSeq(s, 1, i - 1)>> \o Split(SubSeq(s, i + 1, Len(s)), sep))

\* float(text): ok = FALSE stands for ValueError.  Grammar: optional
\* surrounding whitespace, optional sign, then "nan" or digits with an
\* optional decimal point and at least one digit, and an optional exponent
\* e, optional sign, digits.
ParseUnsigned(body, negative) ==
    LET e == IndexOf(body, "e")
        mant == IF e = 0 THEN body ELSE SubSeq(body, 1, e - 1)
        exp == IF e = 0 THEN <<>> ELSE SubSeq(body, e + 1, Len(body))
        expdigits == IF exp # <<>> /\ exp[1] \in {"+", "-"} THEN Tail(exp) ELSE exp
        dot == IndexOf(mant, ".")
        ip == IF dot = 0 THEN mant ELSE SubSeq(mant, 1, dot - 1)
        fp == IF dot = 0 THEN <<>> ELSE SubSeq(mant, dot + 1, Len(mant))
        isnum == /\ Range(ip) \subseteq Digits /\ Range(fp) \subseteq Digits
                 /\ Len(ip) + Len(fp) > 0
                 /\ e # 0 => (expdigits # <<>> /\ Range(expdigits) \subseteq Digits)
        scale == IF e = 0 THEN 0 ELSE DigitsVal(expdigits)
        up == e # 0 /\ exp[1] # "-"
        mag == Rat((DigitsVal(ip) * Pow10(Len(fp)) + DigitsVal(fp))
                       * (IF up THEN Pow10(scale) ELSE 1),
                   Pow10(Len(fp)) * (IF up THEN 1 ELSE Pow10(scale)))
    IN  IF body = <<"n", "a", "n">> THEN [ok |-> TRUE, v |-> NaN]
        ELSE IF isnum
             THEN [ok |-> TRUE, v |-> IF negative THEN Neg(mag) ELSE mag]
             ELSE [ok |-> FALSE, v |-> Zero]

ParseFloat(s) ==
    Let(Strip(s),
        LAMBDA t : IF t # <<>> /\ t[1] \in {"+", "-"}
                   THEN Let(Tail(t), LAMBDA body : ParseUnsigned(body, t[1] = "-"))
                   ELSE ParseUnsigned(t, FALSE))

----------------------------------------------------------------------------
(* Python values handed to the helpers: text, a number (int/float, NaN    *)
(* included) or None                                                      *)

StrIn(s) == [t |-> "str", s |-> s, v |-> Zero]
NumIn(x) == [t |-> "num", s |-> <<>>, v |-> x]
NoneIn == [t |-> "none", s |-> <<>>, v |-> Zero]

\* str(value) for text and None
Str(x) == IF x.t = "none" THEN <<"N", "o", "n", "e">> ELSE x.s

FirstTwoAs(parts) == <<parts[1], parts[1]>>
FirstTwo(parts) == <<parts[1], parts[2]>>

parse_calorie_value(cal_str) ==
    IF cal_str.t = "num"
    THEN IF IsNaN(cal_str.v) THEN Zero ELSE cal_str.v
    ELSE Let(Strip(Str(cal_str)),
             LAMBDA text :
                 IF "-" \in Range(text)
                 THEN Let(FirstTwo(Split(text, "-")),
                          LAMBDA parts :
                              Let(<<ParseFloat(Strip(parts[1])), ParseFloat(Strip(parts[2]))>>,
                                  LAMBDA lh : IF lh[1].ok /\ lh[2].ok
                                              THEN DivInt(Add(lh[1].v, lh[2].v), 2)
                                              ELSE Zero))
                 ELSE Let(ParseFloat(text), LAMBDA r : IF r.ok THEN r.v ELSE Zero))

----------------------------------------------------------------------------
(* Status classification *)

tolerance == Rat(15, 100)
One == Rat(1, 1)

get_status_limit_strict(actual, target) ==
    IF Leq(actual, Mul(target, Rat(8, 10))) THEN "WELL BELOW LIMIT"
    ELSE IF Lt(actual, target) THEN "OPTIMAL"
    ELSE IF Leq(actual, Mul(target, Rat(115, 100))) THEN "APPROACHING LIMIT"
    ELSE "LIMIT EXCEEDED"

get_status_limit_flipped(actual, target) ==
    IF Geq(actual, Mul(target, Rat(8, 10))) THEN "WELL BELOW LIMIT"
    ELSE IF Leq(actual, target) THEN "OPTIMAL"
    ELSE IF Leq(actual, Mul(target, Rat(115, 100))) THEN "APPROACHING LIMIT"
    ELSE "LIMIT EXCEEDED"

\* the nutrient_type == 'limit' branch
get_status_limit(actual, target) ==
    IF Leq(actual, Mul(target, Rat(8, 10))) THEN "WELL BELOW LIMIT"
    ELSE IF Leq(actual, target) THEN "OPTIMAL"
    ELSE IF Leq(actual, Mul(target, Rat(115, 100))) THEN "APPROACHING LIMIT"
    ELSE "LIMIT EXCEEDED"

get_status_normal_strict(actual, target) ==
    IF Gt(actual, Mul(target, Rat(25, 10))) THEN "DANGEROUSLY HIGH"
    ELSE IF Gt(actual, Mul(target, Rat(15, 10))) THEN "TOO HIGH"
    ELSE IF /\ Gt(actual, Mul(target, Add(One, Neg(tolerance))))
            /\ Leq(actual, Mul(target, Rat(15, 10))) THEN "TARGET ACHIEVED"
    ELSE IF Geq(actual, Mul(target, Rat(65, 100))) THEN "BELOW OPTIMAL"
    ELSE "CRITICAL LOW"

\* the else branch (every other nutrient_type)
get_status_normal(actual, target) ==
    IF Gt(actual, Mul(target, Rat(25, 10))) THEN "DANGEROUSLY HIGH"
    ELSE IF Gt(actual, Mul(target, Rat(15, 10))) THEN "TOO HIGH"
    ELSE IF /\ Geq(actual, Mul(target, Add(One, Neg(tolerance))))
            /\ Leq(actual, Mul(target, Rat(15, 10))) THEN "TARGET ACHIEVED"
    ELSE IF Geq(actual, Mul(target, Rat(65, 100))) THEN "BELOW OPTIMAL"
    ELSE "CRITICAL LOW"

get_status(actual, target, nutrient_type) ==
    IF nutrient_type = "limit" THEN get_status_limit(actual, target)
    ELSE get_status_normal(actual, target)

\* the daily targets and limits of the nutrition breakdown
targets ==
    [calories |-> Rat(1600, 1), protein |-> Rat(110, 1), fat |-> Rat(45, 1),
     saturated_fat |-> Rat(15, 1), carbs |-> Rat(160, 1), fiber |-> Rat(30, 1),
     sugar |-> Rat(20, 1), omega_3 |-> Rat(12, 10), omega_6 |-> Rat(7, 1),
     sodium |-> Rat(1800, 1), potassium |-> Rat(3500, 1), calcium |-> Rat(1000, 1),
     magnesium |-> Rat(350, 1), phosphorus |-> Rat(800, 1), iron |-> Rat(12, 1),
     zinc |-> Rat(12, 1), copper |-> Rat(1, 1), manganese |-> Rat(25, 10),
     selenium |-> Rat(55, 1), iodine |-> Rat(150, 1), chromium |-> Rat(35, 1),
     molybdenum |-> Rat(45, 1), vitamin_a |-> Rat(900, 1), vitamin_b1 |-> Rat(12, 10),
     vitamin_b2 |-> Rat(13, 10), vitamin_b3 |-> Rat(16, 1), vitamin_b5 |-> Rat(5, 1),
     vitamin_b6 |-> Rat(15, 10), vitamin_b12 |-> Rat(24, 10), folate |-> Rat(400, 1),
     vitamin_c |-> Rat(90, 1), vitamin_d |-> Rat(600, 1), vitamin_e |-> Rat(15, 1),
     vitamin_k |-> Rat(120, 1), cholesterol |-> Rat(250, 1)]

----------------------------------------------------------------------------
(* Aggregation.  A DataFrame is a sequence of rows, a row a record of     *)
(* Python values, a Series a sequence of values.                          *)

Column(frame, name) == [i \in DOMAIN frame |-> frame[i][name]]

RECURSIVE SumSeq(_)
SumSeq(xs) == IF xs = <<>> THEN Zero
              ELSE Let(SumSeq(SubSeq(xs, 1, Len(xs) - 1)),
                       LAMBDA rest : Add(rest, xs[Len(xs)]))

\* pd.to_numeric(value, errors='coerce')
to_numeric(value) ==
    IF value.t = "num" THEN value.v
    ELSE IF value.t = "none" THEN NaN
    ELSE Let(ParseFloat(value.s), LAMBDA r : IF r.ok THEN r.v ELSE NaN)

\* Series.fillna(0), elementwise
fillna0(x) == IF IsNaN(x) THEN Zero ELSE x

\* Series.sum() of a float Series: skipna=True leaves NaN out
series_sum(xs) ==
    Let([i \in DOMAIN xs |-> IF IsNaN(xs[i]) THEN Zero ELSE xs[i]], SumSeq)

nunique_as_count(xs) == Len(xs)

\* Series.nunique()
nunique(xs) == Cardinality(Range(xs))

safe_sum_nofill(series) ==
    Let([i \in DOMAIN series |-> to_numeric(series[i])], SumSeq)

safe_sum(series) ==
    Let([i \in DOMAIN series |-> Let(to_numeric(series[i]), fillna0)], SumSeq)

empty_macros_one_day ==
    [total_calories |-> Zero, avg_calories |-> Zero,
     total_protein |-> Zero, avg_protein |-> Zero,
     total_fat |-> Zero, avg_fat |-> Zero,
     total_carbs |-> Zero, avg_carbs |-> Zero,
     meal_count |-> 0, days_count |-> 1]

\* the dictionary returned for an empty DataFrame
empty_macros ==
    [total_calories |-> Zero, avg_calories |-> Zero,
     total_protein |-> Zero, avg_protein |-> Zero,
     total_fat |-> Zero, avg_fat |-> Zero,
     total_carbs |-> Zero, avg_carbs |-> Zero,
     meal_count |-> 0, days_count |-> 0]

\* total / days_count if days_count > 0 else 0
per_day(total, days_count) == IF days_count > 0 THEN DivInt(total, days_count) ELSE Zero

calculate_macros(frame) ==
    IF Len(frame) = 0 THEN empty_macros
    ELSE Let([meal_count |-> Len(frame),
              days_count |-> nunique(Column(frame, "date")),
              calories |-> Let([i \in DOMAIN frame |-> parse_calorie_value(frame[i].calories)],
                               series_sum),
              protein |-> safe_sum(Column(frame, "protein")),
              fat |-> safe_sum(Column(frame, "fat")),
              carbs |-> safe_sum(Column(frame, "carbs"))],
             LAMBDA total :
                 [total_calories |-> total.calories,
                  avg_calories |-> per_day(total.calories, total.days_count),
                  total_protein |-> total.protein,
                  avg_protein |-> per_day(total.protein, total.days_count),
                  total_fat |-> total.fat,
                  avg_fat |-> per_day(total.fat, total.days_count),
                  total_carbs |-> total.carbs,
                  avg_carbs |-> per_day(total.carbs, total.days_count),
                  meal_count |-> total.meal_count,
                  days_count |-> total.days_count])

----------------------------------------------------------------------------
(* The database health_tracker.db.  A table is a set of rows, a row a     *)
(* function from the table's column names to Python values; a table that  *)
(* does not exist has no columns.  Dates are day numbers and times minute *)
(* numbers: isoformat() and strftime("%H:%M") texts compare as they do.   *)

IntIn(i) == [t |-> "int", s |-> <<>>, v |-> Rat(i, 1)]
DateIn(day) == [t |-> "date", s |-> <<>>, v |-> Rat(day, 1)]
TimeIn(minute) == [t |-> "time", s |-> <<>>, v |-> Rat(minute, 1)]

\* the numeric nutrient columns both CREATE TABLE statements list
NutrientColumns ==
    {"protein", "fat", "carbs", "fiber", "sodium", "cholesterol", "sugar",
     "saturated_fat", "vitamin_a", "vitamin_b1", "vitamin_b2", "vitamin_b3",
     "vitamin_b5", "vitamin_b6", "vitamin_b12", "vitamin_c", "vitamin_d",
     "vitamin_e", "vitamin_k", "folate", "calcium", "iron", "magnesium",
     "phosphorus", "potassium", "zinc", "copper", "manganese", "selenium",
     "iodine", "chromium", "molybdenum", "omega_3", "omega_6", "water", "ash"}

\* CREATE TABLE IF NOT EXISTS food_library (...)
FoodTableColumns == {"id", "food_name", "calories", "created_date"} \cup NutrientColumns

\* CREATE TABLE IF NOT EXISTS meals (...)
MealTableColumns ==
    {"id", "date", "time", "food_name", "portion", "calories", "notes"}
        \cup NutrientColumns

\* required_columns of migrate_database
required_columns == (NutrientColumns \ {"protein", "fat", "carbs"}) \cup {"created_date"}
meal_columns == required_columns \cup {"notes", "time"}

\* ALTER TABLE ... ADD COLUMN for every missing column: the rows keep their
\* values and hold NULL in the new columns.  A table that does not exist
\* stays absent (the OperationalError is swallowed).
AddColumns(row, columns) ==
    [c \in DOMAIN row \cup columns |-> IF c \in DOMAIN row THEN row[c] ELSE NoneIn]

migrate_database_food_only(conn) ==
    [conn EXCEPT
        !.food_cols = IF conn.food_cols = {} THEN {} ELSE conn.food_cols \cup required_columns,
        !.food_library = {AddColumns(row, required_columns) : row \in conn.food_library}]

migrate_database(conn) ==
    [conn EXCEPT
        !.food_cols = IF conn.food_cols = {} THEN {} ELSE conn.food_cols \cup required_columns,
        !.meal_cols = IF conn.meal_cols = {} THEN {} ELSE conn.meal_cols \cup meal_columns,
        !.food_library = {AddColumns(row, required_columns) : row \in conn.food_library},
        !.meals = {AddColumns(row, meal_columns) : row \in conn.meals}]

init_db(conn) ==
    migrate_database(
        [conn EXCEPT
            !.food_cols = IF conn.food_cols = {} THEN FoodTableColumns ELSE conn.food_cols,
            !.meal_cols = IF conn.meal_cols = {} THEN MealTableColumns ELSE conn.meal_cols])

\* the value of a row's column, NULL when the INSERT or UPDATE gave none
RowIds(table) == {row.id.v.n : row \in table}
FoodNames(conn) == {row.food_name : row \in conn.food_library}

\* safe_float(value): None, '' and NaN give 0.0; unparsable text gives 0.0
safe_float(value) ==
    IF value.t = "none" THEN Zero
    ELSE IF value.t = "str"
         THEN IF value.s = <<>> THEN Zero
              ELSE Let(ParseFloat(value.s), LAMBDA r : IF r.ok THEN r.v ELSE Zero)
    ELSE IF IsNaN(value.v) THEN Zero
    ELSE value.v

\* str(x) of a float with a finite decimal expansion: 475.0, 712.5, nan
DigitChar(i) == CHOOSE c \in Digits : DigitVal(c) = i

RECURSIVE IntDigits(_)
IntDigits(i) == IF i < 10 THEN <<DigitChar(i)>>
                ELSE Append(IntDigits(i \div 10), DigitChar(i % 10))

RECURSIVE FracDigits(_, _)
FracDigits(rem, d) ==
    IF rem = 0 THEN <<>>
    ELSE <<DigitChar((rem * 10) \div d)>> \o FracDigits((rem * 10) % d, d)

\* the k with 1 <= n / d * 10^k < 10, for 0 < n / d < 1
RECURSIVE ShiftUp(_, _)
ShiftUp(n, d) == IF n >= d THEN 0 ELSE 1 + ShiftUp(n * 10, d)

\* 475.0 and 712.5: the digits with a decimal point
FormatFixed(n, d) ==
    Let(FracDigits(n % d, d),
        LAMBDA frac : IntDigits(n \div d) \o <<".">>
                          \o (IF frac = <<>> THEN <<"0">> ELSE frac))

\* 5e-05 and 1.5e-05: one digit, the further digits if any, and an
\* exponent of at least two digits
FormatExponent(n, d, sign, k) ==
    Let(FracDigits(n % d, d),
        LAMBDA frac : IntDigits(n \div d)
                          \o (IF frac = <<>> THEN <<>> ELSE <<".">> \o frac)
                          \o <<"e", sign>>
                          \o (IF k < 10 THEN <<"0">> ELSE <<>>) \o IntDigits(k))

\* repr switches to the exponent form below 0.0001 (and from 1e16 on,
\* beyond the numbers of this model)
FormatFloat(x) ==
    IF IsNaN(x) THEN <<"n", "a", "n">>
    ELSE (IF x.n < 0 THEN <<"-">> ELSE <<>>) \o
         Let(Abs(x.n),
             LAMBDA a :
                 IF a # 0 /\ a * 10000 < x.d
                 THEN Let(ShiftUp(a, x.d),
                          LAMBDA k : FormatExponent(a * Pow10(k), x.d, "-", k))
                 ELSE FormatFixed(a, x.d))

\* datetime.now().isoformat() of the INSERT, to the day
Today == 0

\* INSERT INTO food_library: food_name is UNIQUE, id is AUTOINCREMENT.
\* The result is the returned success flag and the database afterwards.
insert_food(conn, food_name, calories, nutrients) ==
    LET id == conn.food_seq + 1
        row == [c \in conn.food_cols |->
                   IF c = "id" THEN IntIn(id)
                   ELSE IF c = "food_name" THEN StrIn(food_name)
                   ELSE IF c = "calories" THEN StrIn(calories)
                   ELSE IF c = "created_date" THEN DateIn(Today)
                   ELSE IF c \in DOMAIN nutrients THEN NumIn(nutrients[c])
                   ELSE NoneIn]
    IN  [ok |-> TRUE,
         conn |-> [conn EXCEPT !.food_library = @ \cup {row}, !.food_seq = id]]

add_food_to_library_no_unique(conn, food_name, calories, nutrients) ==
    insert_food(conn, food_name, calories, nutrients)

add_food_to_library(conn, food_name, calories, nutrients) ==
    IF StrIn(food_name) \in FoodNames(conn)
    THEN [ok |-> FALSE, conn |-> conn]
    ELSE insert_food(conn, food_name, calories, nutrients)

\* SELECT * FROM food_library WHERE id = ?
get_food_by_id(conn, food_id) == {row \in conn.food_library : row.id = IntIn(food_id)}

delete_food_from_library_cascade(conn, food_id) ==
    [conn EXCEPT
        !.food_library = {row \in @ : row.id # IntIn(food_id)},
        !.meals = {meal \in @ : \A row \in conn.food_library :
                       row.id = IntIn(food_id) => meal.food_name # row.food_name}]

\* DELETE FROM food_library WHERE id = ?
delete_food_from_library(conn, food_id) ==
    [conn EXCEPT !.food_library = {row \in @ : row.id # IntIn(food_id)}]

update_food_in_library_no_clash(conn, food_id, food_name, calories, nutrients) ==
    LET updated(row) == [c \in DOMAIN row |->
                            IF c = "food_name" THEN StrIn(food_name)
                            ELSE IF c = "calories" THEN StrIn(calories)
                            ELSE IF c \in DOMAIN nutrients THEN NumIn(nutrients[c])
                            ELSE row[c]]
    IN  [ok |-> TRUE,
         conn |-> [conn EXCEPT !.food_library =
                      {IF row.id = IntIn(food_id) THEN updated(row) ELSE row : row \in @}]]

\* UPDATE food_library SET ... WHERE id = ?: a name another entry holds
\* raises IntegrityError (False); an id no entry holds updates nothing (True)
update_food_in_library(conn, food_id, food_name, calories, nutrients) ==
    LET hit == get_food_by_id(conn, food_id)
        clash == \E row \in conn.food_library :
                     row.id # IntIn(food_id) /\ row.food_name = StrIn(food_name)
        updated(row) == [c \in DOMAIN row |->
                            IF c = "food_name" THEN StrIn(food_name)
                            ELSE IF c = "calories" THEN StrIn(calories)
                            ELSE IF c \in DOMAIN nutrients THEN NumIn(nutrients[c])
                            ELSE row[c]]
    IN  IF hit # {} /\ clash THEN [ok |-> FALSE, conn |-> conn]
        ELSE [ok |-> TRUE,
              conn |-> [conn EXCEPT !.food_library =
                         {IF row \in hit THEN updated(row) ELSE row : row \in @}]]

\* INSERT INTO meals: id is AUTOINCREMENT, unnamed columns hold NULL
add_meal_to_log(conn, date, time, food_name, portion, calories, nutrients, notes) ==
    LET id == conn.meal_seq + 1
        row == [c \in conn.meal_cols |->
                   IF c = "id" THEN IntIn(id)
                   ELSE IF c = "date" THEN DateIn(date)
                   ELSE IF c = "time" THEN TimeIn(time)
                   ELSE IF c = "food_name" THEN StrIn(food_name)
                   ELSE IF c = "portion" THEN StrIn(portion)
                   ELSE IF c = "calories" THEN StrIn(calories)
                   ELSE IF c = "notes" THEN StrIn(notes)
                   ELSE IF c \in DOMAIN nutrients THEN NumIn(nutrients[c])
                   ELSE NoneIn]
    IN  [conn EXCEPT !.meals = @ \cup {row}, !.meal_seq = id]

delete_meal_from_log_and_later(conn, meal_id) ==
    [conn EXCEPT !.meals = {row \in @ : row.id.v.n < meal_id}]

\* DELETE FROM meals WHERE id = ?
delete_meal_from_log(conn, meal_id) ==
    [conn EXCEPT !.meals = {row \in @ : row.id # IntIn(meal_id)}]

\* ORDER BY date DESC, time DESC: NULL times last, ties in rowid order
TimeKey(row) == IF row.time.t = "none" THEN 0 - 1 ELSE row.time.v.n
OrderedBefore(r, o) ==
    \/ r.date.v.n > o.date.v.n
    \/ r.date.v.n = o.date.v.n /\ TimeKey(r) > TimeKey(o)
    \/ r.date.v.n = o.date.v.n /\ TimeKey(r) = TimeKey(o) /\ r.id.v.n <= o.id.v.n

RECURSIVE OrderBy(_)
OrderBy(rows) ==
    IF rows = {} THEN <<>>
    ELSE LET first == CHOOSE r \in rows : \A o \in rows : OrderedBefore(r, o)
         IN  <<first>> \o OrderBy(rows \ {first})

get_meals_any_date(conn, start_date, end_date) == OrderBy(conn.meals)

get_meals_before_end(conn, start_date, end_date) ==
    OrderBy({row \in conn.meals :
                 start_date <= row.date.v.n /\ row.date.v.n < end_date})

\* SELECT * FROM meals WHERE date BETWEEN ? AND ? ORDER BY date DESC, time DESC
get_meals_by_date_range(conn, start_date, end_date) ==
    OrderBy({row \in conn.meals :
                 start_date <= row.date.v.n /\ row.date.v.n <= end_date})

----------------------------------------------------------------------------
(* Inputs of the normalizer *)

Alphabet == {"1", "5", "-", " ", ".", "n", "a"}

RECURSIVE StringsUpTo(_)
StringsUpTo(len) == IF len = 0 THEN {<<>>}
                    ELSE LET shorter == StringsUpTo(len - 1)
                         IN  shorter \cup {Append(s, c) : s \in shorter, c \in Alphabet}

\* the calorie strings the documentation names
ExampleStrings == { <<"4", "5", "0", "-", "5", "0", "0">>,
                    <<"1", "0", "0">>,
                    <<"a", "b", "c">>,
                    <<"3", "0", "0">>,
                    <<"4", "5", "0", "-", "5", "5", "0">>,
                    <<"1", "0", "0", "-", "2", "0", "0", "-", "3", "0", "0">>,
                    <<"-", "5", "0", "-", "1", "0", "0">>,
                    <<" ", "4", "5", "0", " ", "-", " ", "5", "0", "0", " ">> }

CalStrings == StringsUpTo(MaxLen) \cup ExampleStrings
CalNumbers == {Rat(0, 1), Rat(100, 1), Rat(951, 2), Rat(-5, 1), NaN}
CalInputs == {StrIn(s) : s \in CalStrings} \cup {NumIn(x) : x \in CalNumbers} \cup {NoneIn}

----------------------------------------------------------------------------
(* Specification of the normalizer: pick an argument, call the function *)

NoMacros == [set |-> FALSE]

\* the application is not running: no database file, nothing rendered
NoDb == [food_cols |-> {}, meal_cols |-> {}, food_library |-> {}, meals |-> {},
         food_seq |-> 0, meal_seq |-> 0]
NoMetrics == [set |-> FALSE]
NoOp == [op |-> "none"]
\* the burn calculator is not shown
NoCalc == [set |-> FALSE]

\* no session is inside a call of a library function
Sessions == {"s1", "s2"}
Idle == [pc |-> "idle", call |-> NoOp, conn |-> NoDb, success |-> FALSE]
NoCalls == [s \in Sessions |-> Idle]

AppIdle ==
    /\ db = NoDb /\ page = "none" /\ metrics = NoMetrics /\ all_meals_df = <<>>
    /\ sessions = NoCalls
    /\ calc = NoCalc
    /\ last = NoOp

InitParse ==
    /\ pc = "call"
    /\ cal_in \in CalInputs
    /\ cal_out = Zero
    /\ st_actual = Zero /\ st_target = Zero /\ st_kind = "none" /\ st_out = "none"
    /\ df = <<>>
    /\ macros = NoMacros
    /\ AppIdle

ParseCalorie ==
    /\ pc = "call"
    /\ cal_out' = parse_calorie_value(cal_in)
    /\ pc' = "return"
    /\ UNCHANGED <<cal_in, st_actual, st_target, st_kind, st_out, df, macros>>
    /\ UNCHANGED app_vars

NextParse == ParseCalorie

SpecParse == InitParse /\ [][NextParse]_vars

----------------------------------------------------------------------------
(* Specification of the classifier: pick actual, target and kind, classify *)

Kinds == {"normal", "limit"}
Targets == {Rat(h, 2) : h \in 1..MaxTargetHalves}
\* actual values on a grid of 1/40 that holds every threshold of every
\* target, from 0 to beyond 2.5 times the largest target
MaxActualFortieths == 55 * MaxTargetHalves
Actuals == {Rat(f, 40) : f \in 0..MaxActualFortieths}

InitStatus ==
    /\ pc = "call"
    /\ st_actual \in Actuals
    /\ st_target \in Targets
    /\ st_kind \in Kinds
    /\ st_out = "none"
    /\ cal_in = NoneIn /\ cal_out = Zero
    /\ df = <<>>
    /\ macros = NoMacros
    /\ AppIdle

Classify ==
    /\ pc = "call"
    /\ st_out' = get_status(st_actual, st_target, st_kind)
    /\ pc' = "return"
    /\ UNCHANGED <<cal_in, cal_out, st_actual, st_target, st_kind, df, macros>>
    /\ UNCHANGED app_vars

NextStatus == Classify

SpecStatus == InitStatus /\ [][NextStatus]_vars

----------------------------------------------------------------------------
(* Specification of the aggregation: a query result is read row by row    *)
(* into a DataFrame, then calculate_macros runs on it                     *)

MealDates == {"2024-01-01", "2024-01-02"}

\* calories is a TEXT column: text or NULL.  The log form stores
\* str(parse_calorie_value(food calories) * multiplier) of a food the save
\* form accepted (normalized calories > 0), so a stored text denotes a
\* number; plain and range texts are both admitted here.
CalorieCells == { StrIn(<<"3", "0", "0">>),
                  StrIn(<<"4", "5", "0", "-", "5", "5", "0">>),
                  StrIn(<<"7", "1", "2", ".", "5">>),
                  NoneIn }

\* protein, fat, carbs are REAL columns: a number, NULL (None or NaN in the
\* frame) or text SQLite could not convert to a number
Garbage == StrIn(<<"a", "b", "c">>)
NutrientCells ==
    { [protein |-> NumIn(Rat(20, 1)), fat |-> NumIn(Rat(5, 1)), carbs |-> NumIn(Rat(1, 2))],
      [protein |-> NumIn(Rat(35, 1)), fat |-> NoneIn, carbs |-> Garbage],
      [protein |-> NoneIn, fat |-> NumIn(NaN), carbs |-> NumIn(Rat(3, 1))],
      [protein |-> Garbage, fat |-> NumIn(Rat(7, 1)), carbs |-> NoneIn],
      [protein |-> NumIn(NaN), fat |-> StrIn(<<"n", "a", "n">>), carbs |-> NumIn(NaN)] }

MealRows == { [date |-> d, calories |-> c,
               protein |-> x.protein, fat |-> x.fat, carbs |-> x.carbs] :
              d \in MealDates, c \in CalorieCells, x \in NutrientCells }

InitMacros ==
    /\ pc = "call"
    /\ df = <<>>
    /\ macros = NoMacros
    /\ cal_in = NoneIn /\ cal_out = Zero
    /\ st_actual = Zero /\ st_target = Zero /\ st_kind = "none" /\ st_out = "none"
    /\ AppIdle

\* pd.read_sql_query delivers one more row of the result
FetchRow ==
    /\ pc = "call"
    /\ Len(df) < MaxMeals
    /\ \E row \in MealRows : df' = Append(df, row)
    /\ UNCHANGED <<pc, macros, cal_in, cal_out, st_actual, st_target, st_kind, st_out>>
    /\ UNCHANGED app_vars

Calculate ==
    /\ pc = "call"
    /\ macros' = calculate_macros(df)
    /\ pc' = "return"
    /\ UNCHANGED <<df, cal_in, cal_out, st_actual, st_target, st_kind, st_out>>
    /\ UNCHANGED app_vars

NextMacros == FetchRow \/ Calculate

SpecMacros == InitMacros /\ [][NextMacros]_vars

----------------------------------------------------------------------------
(* Specification of the pipeline: the aggregation, then the protein       *)
(* metric of the breakdown classifies the protein total                   *)

ClassifyProtein ==
    /\ pc = "return"
    /\ macros # NoMacros
    /\ df # <<>>
    /\ st_actual' = safe_sum(Column(df, "protein"))
    /\ st_target' = targets.protein
    /\ st_kind' = "normal"
    /\ st_out' = get_status(safe_sum(Column(df, "protein")), targets.protein, "normal")
    /\ pc' = "classified"
    /\ UNCHANGED <<df, macros, cal_in, cal_out>>
    /\ UNCHANGED app_vars

NextPipeline == FetchRow \/ Calculate \/ ClassifyProtein

SpecPipeline == InitMacros /\ [][NextPipeline]_vars

----------------------------------------------------------------------------
(* Specification of the application: one browser session of main().  Every *)
(* script run calls init_db(), handles the widget that triggered it and    *)
(* renders its page; a handler that ends in st.rerun() renders the page    *)
(* again from the database it left.                                        *)

MaxFoodId == 2           \* food_library rowids the session hands out
MaxMealId == 1           \* meals rowids the session hands out

LogPages == {"Today's Log", "Last 7 Days"}
Pages == LogPages \cup {"Food Library", "Settings"}

\* the four pages that show a log; a session of Spec visits LogPages
AllLogPages == LogPages \cup {"Last 15 Days", "Last 30 Days"}

DaysBack_as_titled(pg) ==
    IF pg = "Today's Log" THEN 0
    ELSE IF pg = "Last 7 Days" THEN 7
    ELSE IF pg = "Last 15 Days" THEN 15
    ELSE 30

\* start_date of the page, as days before today
DaysBack(pg) ==
    IF pg = "Today's Log" THEN 0
    ELSE IF pg = "Last 7 Days" THEN 6
    ELSE IF pg = "Last 15 Days" THEN 14
    ELSE 29

\* "2000-01-01", the first date of the export, as a day number
Y2000 == Today - 9802

\* int(x) of a float: truncation towards zero
int(x) == Rat((IF x.n < 0 THEN 0 - 1 ELSE 1) * (Abs(x.n) \div x.d), 1)

\* the nutrient_type each metric of the breakdown passes to get_status
nutrient_type_all_normal(name) == "normal"
nutrient_type(name) ==
    IF name \in {"saturated_fat", "sugar", "sodium", "cholesterol"} THEN "limit"
    ELSE "normal"

\* the actuals the breakdown shows and the band of each target
breakdown_actual(meals_df, totals, name) ==
    IF name = "calories" THEN int(totals.total_calories)
    ELSE safe_sum(Column(meals_df, name))

breakdown(meals_df, totals) ==
    Let([name \in NutrientColumns \cup {"calories"} |->
            Let(breakdown_actual(meals_df, totals, name), LAMBDA sum : sum)],
        LAMBDA actual :
            [set |-> TRUE,
             actual |-> actual,
             status |-> [name \in DOMAIN targets |->
                            get_status(actual[name], targets[name], nutrient_type(name))]])

\* one script run on page pg over the database conn, after handling op:
\* init_db(), then on a log page the query, the aggregation and, when
\* meals are shown, the breakdown; on the Settings page the export query
Run(conn, pg, op) ==
    /\ db' = init_db(conn)
    /\ page' = pg
    /\ df' = IF pg \in AllLogPages
             THEN get_meals_by_date_range(db', Today - DaysBack(pg), Today)
             ELSE <<>>
    /\ macros' = IF pg \in AllLogPages THEN calculate_macros(df') ELSE NoMacros
    /\ metrics' = IF df' # <<>> THEN breakdown(df', macros') ELSE NoMetrics
    /\ all_meals_df' = IF pg = "Settings"
                       THEN get_meals_by_date_range(db', Y2000, Today)
                       ELSE <<>>
    /\ last' = op
    /\ pc' = "ready"
    /\ UNCHANGED <<cal_in, cal_out, st_actual, st_target, st_kind, st_out, sessions,
                   calc>>

\* what the user types into the forms
Roti == <<"R", "o", "t", "i">>
Daal == <<"D", "a", "a", "l">>
NameInputs == {Roti, Daal, <<>>}
HalfServing == [name \in NutrientColumns |->
                   IF name \in DOMAIN targets THEN DivInt(targets[name], 2) ELSE Rat(1, 2)]
FullServing == [name \in NutrientColumns |->
                   IF name \in DOMAIN targets THEN targets[name] ELSE One]
\* the calories text and the nutrient values of a filled form
FoodForms ==
    {[calories |-> <<"4", "5", "0", "-", "5", "5", "0">>, nutrients |-> HalfServing],
     [calories |-> <<"2", "4", "0", "0", ".", "5">>, nutrients |-> FullServing],
     [calories |-> <<"0">>, nutrients |-> HalfServing]}
Days == {Today - 7, Today - 3, Today}
Times == {13 * 60}
Multipliers == {One, Rat(3, 2)}

\* a database an earlier version of the program left: the base columns only
LegacyFood ==
    [id |-> IntIn(1), food_name |-> StrIn(Roti), calories |-> StrIn(<<"3", "0", "0">>),
     protein |-> NumIn(Rat(20, 1)), fat |-> NumIn(Rat(5, 1)), carbs |-> NumIn(Rat(40, 1))]
LegacyMeal ==
    [id |-> IntIn(1), date |-> DateIn(Today - 3), food_name |-> StrIn(Roti),
     portion |-> StrIn(<<"1", "x">>), calories |-> StrIn(<<"3", "0", "0">>),
     protein |-> NumIn(Rat(20, 1)), fat |-> NumIn(Rat(5, 1)), carbs |-> NumIn(Rat(40, 1))]
LegacyDb ==
    [food_cols |-> DOMAIN LegacyFood, meal_cols |-> DOMAIN LegacyMeal,
     food_library |-> {LegacyFood}, meals |-> {LegacyMeal},
     food_seq |-> 1, meal_seq |-> 1]
LegacyDbNoMeals == [LegacyDb EXCEPT !.meals = {}, !.meal_seq = 0]

Init ==
    /\ pc = "start"
    /\ db \in {NoDb, LegacyDb, LegacyDbNoMeals}
    /\ page = "none"
    /\ metrics = NoMetrics
    /\ all_meals_df = <<>>
    /\ sessions = NoCalls
    /\ calc = NoCalc
    /\ last = NoOp
    /\ df = <<>>
    /\ macros = NoMacros
    /\ cal_in = NoneIn /\ cal_out = Zero
    /\ st_actual = Zero /\ st_target = Zero /\ st_kind = "none" /\ st_out = "none"

\* the first script run of the session
Start ==
    /\ pc = "start"
    /\ Run(db, "Today's Log", [op |-> "start"])

\* the sidebar radio
SelectPage ==
    /\ pc = "ready"
    /\ \E pg \in Pages \ {page} : Run(db, pg, [op |-> "select"])

FormValid_any_calories(food_name, calories) ==
    /\ food_name # <<>>
    /\ calories # <<>>

\* the form's check: food_name and calories and parse_calorie_value(calories) > 0
FormValid(food_name, calories) ==
    /\ food_name # <<>>
    /\ calories # <<>>
    /\ \E value \in {parse_calorie_value(StrIn(calories))} : Gt(value, Zero)

\* "Save to Library"
SaveToLibrary ==
    /\ pc = "ready"
    /\ page = "Food Library"
    /\ db.food_seq < MaxFoodId
    /\ \E food_name \in NameInputs, form \in FoodForms :
          IF FormValid(food_name, form.calories)
          THEN \E r \in {add_food_to_library(db, food_name, form.calories,
                                               form.nutrients)} :
                   Run(r.conn, page,
                       [op |-> "add_food", ok |-> r.ok, food_name |-> food_name,
                        calories |-> form.calories])
          ELSE Run(db, page, [op |-> "rejected", food_name |-> food_name,
                              calories |-> form.calories])

\* "Update Food"
UpdateFood ==
    /\ pc = "ready"
    /\ page = "Food Library"
    /\ \E food_data \in db.food_library, edit_food_name \in NameInputs,
          form \in FoodForms :
          IF FormValid(edit_food_name, form.calories)
          THEN \E r \in {update_food_in_library(db, food_data.id.v.n, edit_food_name,
                                                  form.calories, form.nutrients)} :
                   Run(r.conn, page,
                       [op |-> "update_food", ok |-> r.ok, id |-> food_data.id.v.n,
                        food_name |-> edit_food_name, calories |-> form.calories])
          ELSE Run(db, page, [op |-> "rejected", food_name |-> edit_food_name,
                              calories |-> form.calories])

\* "Delete Food"
DeleteFood ==
    /\ pc = "ready"
    /\ page = "Food Library"
    /\ \E food_to_delete \in RowIds(db.food_library) :
          \E deleted \in {delete_food_from_library(db, food_to_delete)} :
              Run(deleted, page, [op |-> "delete_food", id |-> food_to_delete])

\* "Add to Log": the entry is the selected food scaled by the quantity
scaled_unscaled(food_row, portion_multiplier) ==
    [name \in NutrientColumns |-> safe_float(food_row[name])]

scaled(food_row, portion_multiplier) ==
    [name \in NutrientColumns |->
        Let(safe_float(food_row[name]), LAMBDA value : Mul(value, portion_multiplier))]

multiplied_calories(food_row, portion_multiplier) ==
    Let(parse_calorie_value(food_row.calories),
        LAMBDA base_cals : Let(Mul(base_cals, portion_multiplier), FormatFloat))

portion_display(portion_multiplier) == FormatFloat(portion_multiplier) \o <<"x">>

AddToLog ==
    /\ pc = "ready"
    /\ page \in LogPages
    /\ db.meal_seq < MaxMealId
    /\ \E food_row \in db.food_library, meal_date \in Days, meal_time \in Times,
          portion_multiplier \in Multipliers :
          /\ Gt(portion_multiplier, Zero)
          /\ \E nutrients \in {scaled(food_row, portion_multiplier)} :
             \E logged \in {add_meal_to_log(db, meal_date, meal_time,
                                            Str(food_row.food_name),
                                            portion_display(portion_multiplier),
                                            multiplied_calories(food_row, portion_multiplier),
                                            nutrients, <<>>)} :
                Run(logged, page,
                    [op |-> "add_meal", id |-> food_row.id.v.n, date |-> meal_date,
                     time |-> meal_time, portion_multiplier |-> portion_multiplier])

\* "Delete Meal Entry": one of the entries the page shows
DeleteMeal ==
    /\ pc = "ready"
    /\ page \in LogPages
    /\ \E i \in DOMAIN df :
          \E deleted \in {delete_meal_from_log(db, df[i].id.v.n)} :
              Run(deleted, page, [op |-> "delete_meal", id |-> df[i].id.v.n])

\* "Get Daily Health Summary": the report is headed by meal_date, the value
\* of the meal form's date picker, which is assigned only when the library
\* holds a food; without one the script run stops with UnboundLocalError
GetSummary ==
    /\ pc = "ready"
    /\ page = "Today's Log"
    /\ df # <<>>
    /\ IF db.food_library = {}
       THEN Run(db, page, [op |-> "summary", ok |-> FALSE])
       ELSE \E meal_date \in Days :
                Run(db, page, [op |-> "summary", ok |-> TRUE, date |-> meal_date,
                               total_meals |-> Len(df)])

\* "Run Database Migration"
RunMigration ==
    /\ pc = "ready"
    /\ page = "Settings"
    /\ \E migrated \in {migrate_database(db)} : Run(migrated, page, [op |-> "migrate"])

Next ==
    \/ Start
    \/ SelectPage
    \/ SaveToLibrary
    \/ UpdateFood
    \/ DeleteFood
    \/ AddToLog
    \/ DeleteMeal
    \/ GetSummary
    \/ RunMigration

Spec == Init /\ [][Next]_vars

----------------------------------------------------------------------------
(* Specification of the calorie burn calculator: the calories eaten today, *)
(* an exercise and its duration or number of reps are chosen, and the net  *)
(* calorie balance and the progress bar are computed                       *)

\* exercise_data: the rate per minute or per rep of some of the exercises
exercise_data ==
    [walking_slow |-> [rate |-> Rat(9, 2), unit |-> "minutes"],
     running_fast |-> [rate |-> Rat(29, 2), unit |-> "minutes"],
     swimming_moderate |-> [rate |-> Rat(10, 1), unit |-> "minutes"],
     push_ups |-> [rate |-> Rat(9, 20), unit |-> "reps"],
     jumping_jacks |-> [rate |-> Rat(1, 4), unit |-> "reps"]]

\* st.number_input: 1..300 minutes, 1..1000 reps
Amounts(unit) == IF unit = "minutes" THEN {1, 30, 160, 300} ELSE {1, 10, 400, 1000}

\* total_calories_eaten: the sum over today's meals, 0 without meals
EatenTotals ==
    {Zero, Rat(9, 2), Rat(135, 1), Rat(500, 1), Rat(1600, 1), Rat(3201, 2),
     Rat(1735, 1), Rat(4801, 2), Rat(3200, 1), Rat(6000, 1)}

\* (net_calories / 1600) * 100
progress_percentage(net_calories) == Mul(DivInt(net_calories, 1600), Rat(100, 1))

progress_unclamped(net_calories) == DivInt(net_calories, 1600)

\* the value passed to st.progress: 0.0, max(0.0, min(percentage / 100, 1.0))
\* or 1.0
progress(net_calories) ==
    IF Lt(net_calories, Zero) THEN Zero
    ELSE IF Leq(progress_percentage(net_calories), Rat(100, 1))
    THEN Let(DivInt(progress_percentage(net_calories), 100),
             LAMBDA value :
                 Let(IF Lt(One, value) THEN One ELSE value,
                     LAMBDA least : IF Gt(least, Zero) THEN least ELSE Zero))
    ELSE One

InitBurn ==
    /\ pc = "exercise"
    /\ cal_in = NoneIn
    /\ cal_out \in EatenTotals
    /\ st_actual = Zero /\ st_target = Zero /\ st_kind = "none" /\ st_out = "none"
    /\ df = <<>>
    /\ macros = NoMacros
    /\ AppIdle

\* the calculator over the eaten total cal_out
NetCalorieBalance ==
    /\ pc = "exercise"
    /\ \E selected_exercise \in DOMAIN exercise_data :
          \E amount \in Amounts(exercise_data[selected_exercise].unit) :
             \E calories_burned \in {Mul(exercise_data[selected_exercise].rate,
                                          Rat(amount, 1))} :
                \E net_calories \in {Sub(cal_out, calories_burned)} :
                    calc' = [set |-> TRUE,
                             total_calories_eaten |-> cal_out,
                             calories_burned |-> calories_burned,
                             net_calories |-> net_calories,
                             net_remaining |-> Sub(Rat(1600, 1), net_calories),
                             progress |-> progress(net_calories)]
    /\ pc' = "shown"
    /\ UNCHANGED <<cal_in, cal_out, st_actual, st_target, st_kind, st_out, df, macros,
                   db, page, metrics, all_meals_df, sessions, last>>

SpecBurn == InitBurn /\ [][NetCalorieBalance]_vars

----------------------------------------------------------------------------
(* Specification of the meal form: a session on a log page over a library *)
(* of one food, whose calories are any text the Save to Library form      *)
(* accepts                                                                *)

CalorieTexts ==
    {<<"4", "5", "0", "-", "5", "5", "0">>, <<"2", "4", "0", "0", ".", "5">>,
     <<"3", "0", "0">>, <<" ", "1", "2", " ">>, <<"1", "e", "3">>, <<"1", "e", "-", "3">>,
     <<"0", ".", "5">>, <<"0", ".", "0", "0", "1">>, <<"0", ".", "0", "0", "0", "1">>,
     <<"0", ".", "0", "0", "0", "0", "5">>, <<"0">>}

InitLog ==
    /\ pc = "ready"
    /\ \E calories \in CalorieTexts :
          /\ FormValid(Roti, calories)
          /\ db = add_food_to_library(init_db(NoDb), Roti, calories, HalfServing).conn
    /\ page = "Today's Log"
    /\ df = <<>>
    /\ macros = empty_macros
    /\ metrics = NoMetrics
    /\ all_meals_df = <<>>
    /\ sessions = NoCalls
    /\ calc = NoCalc
    /\ last = [op |-> "start"]
    /\ cal_in = NoneIn /\ cal_out = Zero
    /\ st_actual = Zero /\ st_target = Zero /\ st_kind = "none" /\ st_out = "none"

NextLog == SelectPage \/ AddToLog \/ DeleteMeal

SpecLog == InitLog /\ [][NextLog]_vars

----------------------------------------------------------------------------
(* Specification of two browser sessions over one database file.  Each     *)
(* session makes one call of a library function: it opens its connection,  *)
(* executes its statement, which takes the write lock of the file, and     *)
(* commits.  A statement that finds the file locked waits for the lock or  *)
(* gives up with OperationalError after the timeout of the connection.     *)

InitSessions ==
    /\ pc = "sessions"
    /\ db \in {init_db(NoDb), init_db(LegacyDbNoMeals)}
    /\ page = "none"
    /\ metrics = NoMetrics
    /\ all_meals_df = <<>>
    /\ sessions = NoCalls
    /\ calc = NoCalc
    /\ last = NoOp
    /\ df = <<>>
    /\ macros = NoMacros
    /\ cal_in = NoneIn /\ cal_out = Zero
    /\ st_actual = Zero /\ st_target = Zero /\ st_kind = "none" /\ st_out = "none"

\* session s starts the call: get_db_connection()
Enter(s, call) ==
    /\ pc = "sessions"
    /\ sessions[s].pc = "idle"
    /\ sessions' = [sessions EXCEPT ![s] = [Idle EXCEPT !.pc = "called", !.call = call]]
    /\ UNCHANGED <<pc, cal_in, cal_out, st_actual, st_target, st_kind, st_out,
                   df, macros, db, page, metrics, all_meals_df, calc, last>>

\* "Save to Library" with a form the check accepts; fresh tells whether the
\* library held no entry of the name when the call started
CallAdd(s) ==
    \E food_name \in NameInputs, form \in FoodForms :
        /\ FormValid(food_name, form.calories)
        /\ Enter(s, [op |-> "add_food", food_name |-> food_name, form |-> form,
                     fresh |-> StrIn(food_name) \notin FoodNames(db)])

\* "Update Food" of an entry the page lists
CallUpdate(s) ==
    \E food_data \in db.food_library, edit_food_name \in NameInputs, form \in FoodForms :
        /\ FormValid(edit_food_name, form.calories)
        /\ Enter(s, [op |-> "update_food", id |-> food_data.id.v.n,
                     food_name |-> edit_food_name, form |-> form])

\* "Delete Food" of an entry the page lists
CallDelete(s) ==
    \E food_to_delete \in RowIds(db.food_library) :
        Enter(s, [op |-> "delete_food", id |-> food_to_delete])

\* a session has executed its statement and not committed yet
Locked_never == FALSE
Locked == \E o \in Sessions : sessions[o].pc = "executed"

\* the statement of the call over the committed database
Statement(call) ==
    IF call.op = "add_food"
    THEN add_food_to_library(db, call.food_name, call.form.calories, call.form.nutrients)
    ELSE IF call.op = "update_food"
    THEN update_food_in_library(db, call.id, call.food_name, call.form.calories,
                                call.form.nutrients)
    ELSE [ok |-> TRUE, conn |-> delete_food_from_library(db, call.id)]

\* cursor.execute(...): IntegrityError makes the function return False
Execute(s) ==
    /\ sessions[s].pc = "called"
    /\ ~Locked
    /\ \E r \in {Statement(sessions[s].call)} :
          sessions' = [sessions EXCEPT ![s] =
                          IF r.ok THEN [@ EXCEPT !.pc = "executed", !.conn = r.conn]
                          ELSE [@ EXCEPT !.pc = "returned", !.success = FALSE]]
    /\ UNCHANGED <<pc, cal_in, cal_out, st_actual, st_target, st_kind, st_out,
                   df, macros, db, page, metrics, all_meals_df, calc, last>>

\* cursor.execute(...) raises "database is locked": add and update catch it
\* and return False, delete_food_from_library lets it through
Timeout(s) ==
    /\ sessions[s].pc = "called"
    /\ Locked
    /\ sessions' = [sessions EXCEPT ![s] =
                       [@ EXCEPT !.pc = IF sessions[s].call.op = "delete_food"
                                         THEN "raised" ELSE "returned",
                                 !.success = FALSE]]
    /\ UNCHANGED <<pc, cal_in, cal_out, st_actual, st_target, st_kind, st_out,
                   df, macros, db, page, metrics, all_meals_df, calc, last>>

\* conn.commit(), conn.close() and the return of True
Commit(s) ==
    /\ sessions[s].pc = "executed"
    /\ db' = sessions[s].conn
    /\ sessions' = [sessions EXCEPT ![s] =
                       [@ EXCEPT !.pc = "returned", !.conn = NoDb, !.success = TRUE]]
    /\ UNCHANGED <<pc, cal_in, cal_out, st_actual, st_target, st_kind, st_out,
                   df, macros, page, metrics, all_meals_df, calc, last>>

NextSessions ==
    \E s \in Sessions :
        \/ CallAdd(s)
        \/ CallUpdate(s)
        \/ CallDelete(s)
        \/ Execute(s)
        \/ Timeout(s)
        \/ Commit(s)

SpecSessions == InitSessions /\ [][NextSessions]_vars

----------------------------------------------------------------------------
(* Specification of the meal log functions: meals are inserted under any  *)
(* date and time and deleted by id, and get_meals_by_date_range is called *)
(* with any two dates                                                     *)

MaxRows == 3             \* meals rowids handed out before the queries

QueryDays == {Today - 7, Today - 3, Today, Today + 1}
QueryTimes == {8 * 60, 13 * 60}

InitQuery ==
    /\ pc = "insert"
    /\ db \in {init_db(NoDb), init_db(LegacyDb)}
    /\ page = "none"
    /\ metrics = NoMetrics
    /\ all_meals_df = <<>>
    /\ sessions = NoCalls
    /\ calc = NoCalc
    /\ last = NoOp
    /\ df = <<>>
    /\ macros = NoMacros
    /\ cal_in = NoneIn /\ cal_out = Zero
    /\ st_actual = Zero /\ st_target = Zero /\ st_kind = "none" /\ st_out = "none"

\* a meal logged under one of the dates and times
InsertMealOn(dates, times) ==
    /\ pc = "insert"
    /\ db.meal_seq < MaxRows
    /\ \E date \in dates, time \in times :
          db' = add_meal_to_log(db, date, time, Roti, portion_display(One),
                                FormatFloat(Rat(300, 1)), FullServing, <<>>)
    /\ last' = [op |-> "insert_meal"]
    /\ UNCHANGED <<pc, cal_in, cal_out, st_actual, st_target, st_kind, st_out,
                   df, macros, page, metrics, all_meals_df, calc, sessions>>

InsertMeal == InsertMealOn(QueryDays, QueryTimes)

\* delete_meal_from_log called with any id, stored or not
DeleteById ==
    /\ pc = "insert"
    /\ \E meal_id \in 1..MaxRows :
          /\ db' = delete_meal_from_log(db, meal_id)
          /\ last' = [op |-> "delete_meal", id |-> meal_id]
    /\ UNCHANGED <<pc, cal_in, cal_out, st_actual, st_target, st_kind, st_out,
                   df, macros, page, metrics, all_meals_df, calc, sessions>>

QueryRange ==
    /\ pc \in {"insert", "queried"}
    /\ \E start_date \in QueryDays, end_date \in QueryDays :
          /\ df' = get_meals_by_date_range(db, start_date, end_date)
          /\ last' = [op |-> "query", start_date |-> start_date, end_date |-> end_date]
    /\ pc' = "queried"
    /\ UNCHANGED <<cal_in, cal_out, st_actual, st_target, st_kind, st_out,
                   macros, db, page, metrics, all_meals_df, calc, sessions>>

NextQuery == InsertMeal \/ DeleteById \/ QueryRange

SpecQuery == InitQuery /\ [][NextQuery]_vars

----------------------------------------------------------------------------
(* Specification of the page windows: meals are logged under dates around *)
(* the edges of the windows, then the log pages and the Settings page are *)
(* opened                                                                 *)

WindowDays == {Today - 30, Today - 29, Today - 15, Today - 14, Today - 7,
               Today - 6, Today, Today + 1}

\* a script run of one of the four log pages or of the Settings page
OpenPage ==
    /\ pc \in {"insert", "ready"}
    /\ \E pg \in (AllLogPages \cup {"Settings"}) \ {page} :
          Run(db, pg, [op |-> "select"])

NextWindows == InsertMealOn(WindowDays, Times) \/ OpenPage

SpecWindows == InitQuery /\ [][NextWindows]_vars


----------------------------------------------------------------------------
(* Claims about parse_calorie_value, checked under SpecParse *)

Returned == pc = "return"
IsText(x) == x.t \in {"str", "none"}
Mean(x, y) == DivInt(Add(x, y), 2)
HyphenFree(s) == "-" \notin Range(s)
Before(s, i) == SubSeq(s, 1, i - 1)
After(s, i) == SubSeq(s, i + 1, Len(s))

\* C4 (as written): every string "<low>-<high>" whose low and high are both
\* parsable numbers (whitespace allowed around them) is normalized to
\* (low + high) / 2.
C4_RangeMeanAnyParts ==
    (Returned /\ cal_in.t = "str") =>
        \A i \in DOMAIN cal_in.s :
            (/\ cal_in.s[i] = "-"
             /\ ParseFloat(Before(cal_in.s, i)).ok
             /\ ParseFloat(After(cal_in.s, i)).ok)
            => cal_out = Mean(ParseFloat(Before(cal_in.s, i)).v,
                              ParseFloat(After(cal_in.s, i)).v)

\* C4 (amended): every string "<low>-<high>" whose low and high are both
\* parsable numbers that contain no hyphen themselves (no sign) is
\* normalized to (low + high) / 2.
C4_RangeMean ==
    (Returned /\ cal_in.t = "str") =>
        \A i \in DOMAIN cal_in.s :
            (/\ cal_in.s[i] = "-"
             /\ HyphenFree(Before(cal_in.s, i)) /\ HyphenFree(After(cal_in.s, i))
             /\ ParseFloat(Before(cal_in.s, i)).ok
             /\ ParseFloat(After(cal_in.s, i)).ok)
            => cal_out = Mean(ParseFloat(Before(cal_in.s, i)).v,
                              ParseFloat(After(cal_in.s, i)).v)

\* "450-500" has been normalized to 475.0
C4_Witness ==
    /\ Returned
    /\ cal_in = StrIn(<<"4", "5", "0", "-", "5", "0", "0">>)
    /\ cal_out = Rat(475, 1)

\* C5: a hyphen-free text (or None) is normalized to the number it denotes
\* when it is numeric and to 0.0 otherwise; the result is always a number.
C5_HyphenFreeText ==
    (Returned /\ IsText(cal_in) /\ HyphenFree(Str(cal_in))) =>
        LET r == ParseFloat(Str(cal_in))
        IN  /\ ~IsNaN(cal_out)
            /\ r.ok => cal_out = r.v
            /\ ~r.ok => cal_out = Zero

\* C6: whatever the input, numeric or text, the normalized value is >= 0.
C6_NonNegative == Returned => Geq(cal_out, Zero)

\* C7: a text containing a hyphen is split on its first hyphen only, into
\* exactly two parts, and when either part fails to parse as a number the
\* result is 0.0 (so "100-200-300" gives 0.0).
C7_FirstHyphenOnly ==
    (Returned /\ IsText(cal_in) /\ ~HyphenFree(Str(cal_in))) =>
        LET text == Strip(Str(cal_in))
            i == IndexOf(text, "-")
            low == ParseFloat(Before(text, i))
            high == ParseFloat(After(text, i))
        IN  (~low.ok \/ ~high.ok) => cal_out = Zero

----------------------------------------------------------------------------
(* Claims about get_status, checked under SpecStatus *)

Classified == pc = "return" /\ st_out # "none"

\* a <= (p/q) * t and a < (p/q) * t on the integers, a and t rationals
AtMost(a, p, q, t) == a.n * q * t.d <= p * t.n * a.d
Below(a, p, q, t) == a.n * q * t.d < p * t.n * a.d

\* C1: for kind limit, WELL BELOW LIMIT iff a <= 0.80 t, OPTIMAL iff
\* 0.80 t < a <= t, APPROACHING LIMIT iff t < a <= 1.15 t, LIMIT EXCEEDED
\* iff a > 1.15 t; a = t is OPTIMAL.
C1_LimitBands ==
    (Classified /\ st_kind = "limit") =>
        LET a == st_actual
            t == st_target
        IN  /\ st_out = "WELL BELOW LIMIT" <=> AtMost(a, 80, 100, t)
            /\ st_out = "OPTIMAL" <=> (~AtMost(a, 80, 100, t) /\ AtMost(a, 1, 1, t))
            /\ st_out = "APPROACHING LIMIT"
                   <=> (~AtMost(a, 1, 1, t) /\ AtMost(a, 115, 100, t))
            /\ st_out = "LIMIT EXCEEDED" <=> ~AtMost(a, 115, 100, t)
            /\ a = t => st_out = "OPTIMAL"

\* actual equal to the limit has been classified OPTIMAL
C1_Witness ==
    Classified /\ st_kind = "limit" /\ st_actual = st_target /\ st_out = "OPTIMAL"

\* C2: for kind normal, DANGEROUSLY HIGH iff a > 2.5 t, TOO HIGH iff
\* 1.5 t < a <= 2.5 t, TARGET ACHIEVED iff 0.85 t <= a <= 1.5 t, BELOW
\* OPTIMAL iff 0.65 t <= a < 0.85 t, CRITICAL LOW iff a < 0.65 t; a = t and
\* a = 0.85 t are TARGET ACHIEVED.
C2_NormalBands ==
    (Classified /\ st_kind = "normal") =>
        LET a == st_actual
            t == st_target
        IN  /\ st_out = "DANGEROUSLY HIGH" <=> ~AtMost(a, 25, 10, t)
            /\ st_out = "TOO HIGH" <=> (~AtMost(a, 15, 10, t) /\ AtMost(a, 25, 10, t))
            /\ st_out = "TARGET ACHIEVED"
                   <=> (~Below(a, 85, 100, t) /\ AtMost(a, 15, 10, t))
            /\ st_out = "BELOW OPTIMAL"
                   <=> (~Below(a, 65, 100, t) /\ Below(a, 85, 100, t))
            /\ st_out = "CRITICAL LOW" <=> Below(a, 65, 100, t)
            /\ a = t => st_out = "TARGET ACHIEVED"
            /\ a = Rat(85 * t.n, 100 * t.d) => st_out = "TARGET ACHIEVED"

\* actual exactly 0.85 of the target has been classified TARGET ACHIEVED
C2_Witness ==
    /\ Classified /\ st_kind = "normal"
    /\ st_actual = Rat(85 * st_target.n, 100 * st_target.d)
    /\ st_out = "TARGET ACHIEVED"

LimitOrder == <<"WELL BELOW LIMIT", "OPTIMAL", "APPROACHING LIMIT", "LIMIT EXCEEDED">>
NormalOrder == <<"CRITICAL LOW", "BELOW OPTIMAL", "TARGET ACHIEVED", "TOO HIGH",
                 "DANGEROUSLY HIGH">>
BandOrder(kind) == IF kind = "limit" THEN LimitOrder ELSE NormalOrder
BandRank(kind, band) == CHOOSE i \in DOMAIN BandOrder(kind) : BandOrder(kind)[i] = band

\* C3: the result is one band of the kind's list, and a larger actual (same
\* target, same kind) is never classified into an earlier band of the list.
C3_BandsMonotone ==
    Classified =>
        /\ st_out \in Range(BandOrder(st_kind))
        /\ \A higher \in Actuals :
               Gt(higher, st_actual) =>
                   LET above == get_status(higher, st_target, st_kind)
                   IN  /\ above \in Range(BandOrder(st_kind))
                       /\ BandRank(st_kind, above) >= BandRank(st_kind, st_out)

\* a classified actual in a middle band with a larger actual in a later band
C3_Witness ==
    /\ Classified /\ st_kind = "normal" /\ st_out = "BELOW OPTIMAL"
    /\ \E higher \in Actuals :
           /\ Gt(higher, st_actual)
           /\ get_status(higher, st_target, st_kind) = "DANGEROUSLY HIGH"

----------------------------------------------------------------------------
(* Claims about calculate_macros and safe_sum, checked under SpecMacros *)

Calculated == pc = "return" /\ macros # NoMacros

Totals == {"total_calories", "total_protein", "total_fat", "total_carbs"}
Averages == {"avg_calories", "avg_protein", "avg_fat", "avg_carbs"}

\* C8: on an empty meal collection every total and every average is 0,
\* meal_count = 0 and days_count = 0 (no division by zero is evaluated).
C8_EmptyAllZero ==
    (Calculated /\ df = <<>>) =>
        /\ \A key \in Totals \cup Averages : macros[key] = Zero
        /\ macros.meal_count = 0
        /\ macros.days_count = 0

\* calculate_macros has returned its dictionary for the empty collection
C8_Witness == Calculated /\ df = <<>> /\ macros.avg_calories = Zero

\* the sum of xs[i] over the indices i in rows
RECURSIVE SumOver(_, _)
SumOver(xs, rows) ==
    IF rows = {} THEN Zero
    ELSE LET i == CHOOSE j \in rows : TRUE
         IN  Add(xs[i], SumOver(xs, rows \ {i}))

DistinctDates(frame) == {frame[i].date : i \in DOMAIN frame}

\* C9: on a non-empty collection days_count is the number of distinct
\* dates, meal_count the number of records, total_calories the sum S of
\* parse_calorie_value over every record's calorie field, avg_calories
\* S / days_count, and avg_protein, avg_fat, avg_carbs the nutrient total
\* / days_count.
C9_TotalsAndAverages ==
    (Calculated /\ df # <<>>) =>
        LET days == Cardinality(DistinctDates(df))
            normalized == [i \in DOMAIN df |-> parse_calorie_value(df[i].calories)]
            S == SumOver(normalized, DOMAIN df)
        IN  /\ macros.days_count = days
            /\ macros.meal_count = Len(df)
            /\ macros.total_calories = S
            /\ macros.avg_calories = DivInt(S, days)
            /\ macros.avg_protein = DivInt(macros.total_protein, days)
            /\ macros.avg_fat = DivInt(macros.total_fat, days)
            /\ macros.avg_carbs = DivInt(macros.total_carbs, days)

\* two meals of one date, one of them with a calorie range, were aggregated
C9_Witness ==
    /\ Calculated /\ Len(df) = 2
    /\ df[1].date = df[2].date
    /\ df[1].calories = StrIn(<<"3", "0", "0">>)
    /\ df[2].calories = StrIn(<<"4", "5", "0", "-", "5", "5", "0">>)
    /\ macros.total_calories = Rat(800, 1)
    /\ macros.avg_calories = Rat(800, 1)
    /\ macros.days_count = 1

\* a cell that holds a number: not NULL, not NaN, not text
WellFormed(value) == value.t = "num" /\ ~IsNaN(value.v)

\* C10: in every nutrient column a missing, null, NaN or non-numeric text
\* value contributes 0: the total is the sum of the well-formed numeric
\* values only, and it is never NaN.
C10_MalformedContributeZero ==
    Calculated =>
        \A name \in {"protein", "fat", "carbs"} :
            LET good == {i \in DOMAIN df : WellFormed(df[i][name])}
                values == [i \in DOMAIN df |-> df[i][name].v]
                total == macros["total_" \o name]
            IN  /\ ~IsNaN(total)
                /\ total = SumOver(values, good)

\* a collection with a well-formed and a malformed protein value was summed
C10_Witness ==
    /\ Calculated
    /\ \E i, j \in DOMAIN df :
           /\ WellFormed(df[i].protein)
           /\ ~WellFormed(df[j].protein)
    /\ macros.total_protein # Zero

----------------------------------------------------------------------------
(* Claim about the whole pipeline, checked under SpecPipeline *)

TwoMealScenario ==
    /\ Len(df) = 2
    /\ df[1].date = df[2].date
    /\ df[1].calories = StrIn(<<"3", "0", "0">>)
    /\ df[2].calories = StrIn(<<"4", "5", "0", "-", "5", "5", "0">>)
    /\ df[1].protein = NumIn(Rat(20, 1))
    /\ df[2].protein = NumIn(Rat(35, 1))

\* C11: two meals of one date with calories "300" and "450-550" and
\* protein 20.0 and 35.0 aggregate to days_count 1, total and average
\* calories 800, total and average protein 55, and protein 55 against
\* target 110, kind normal, is CRITICAL LOW.
C11_EndToEnd ==
    (pc = "classified" /\ TwoMealScenario) =>
        /\ macros.days_count = 1
        /\ macros.total_calories = Rat(800, 1)
        /\ macros.avg_calories = Rat(800, 1)
        /\ macros.total_protein = Rat(55, 1)
        /\ macros.avg_protein = Rat(55, 1)
        /\ st_actual = Rat(55, 1) /\ st_target = Rat(110, 1) /\ st_kind = "normal"
        /\ st_out = "CRITICAL LOW"

\* the two meals were aggregated and the protein total classified
C11_Witness == pc = "classified" /\ TwoMealScenario /\ st_out = "CRITICAL LOW"

----------------------------------------------------------------------------
(* Further claim about parse_calorie_value, checked under SpecParse *)

\* C20: a text that is only a hyphen, or that has an empty segment next to
\* a hyphen ("-", "100-", "-100"), is normalized to 0.0; no text is
\* normalized to a negative value.
C20_EmptySegment ==
    (Returned /\ IsText(cal_in)) =>
        LET text == Strip(Str(cal_in))
            segments == Split(text, "-")
        IN  /\ ~Lt(cal_out, Zero)
            /\ (/\ ~HyphenFree(text)
                /\ \E s \in DOMAIN segments : Strip(segments[s]) = <<>>)
               => cal_out = Zero

----------------------------------------------------------------------------
(* Claims about the food library and the meal log (Spec)                   *)

Ready == pc = "ready"

\* C12: in every state the session reaches by saving, updating and deleting
\* foods, no two entries of the food library have the same food_name.
C12_UniqueFoodNames ==
    \A a \in db.food_library, b \in db.food_library :
        a.food_name = b.food_name => a = b

\* two entries are stored and an update to the other entry's name was refused
C12_Witness ==
    /\ Cardinality(db.food_library) = 2
    /\ last.op = "update_food"
    /\ ~last.ok

\* C13: add_food_to_library called with a food_name the library already
\* holds returns False and leaves the food library and the meal log as they
\* were.
C13_DuplicateAddRejected ==
    [][(/\ last'.op = "add_food"
        /\ StrIn(last'.food_name) \in FoodNames(db))
       => (/\ last'.ok = FALSE
           /\ db'.food_library = db.food_library
           /\ db'.meals = db.meals)]_vars

\* a duplicate name was saved while a meal was in the log
C13_Witness ==
    /\ last.op = "add_food"
    /\ ~last.ok
    /\ StrIn(last.food_name) \in FoodNames(db)
    /\ db.meals # {}

\* C14: a meal record is immutable once created except for deletion: every
\* step of the program (updating or deleting the food it was logged from
\* and migrate_database included) keeps each stored meal record with every
\* field it had, unless the step is delete_meal_from_log of that record.
C14_MealsImmutable ==
    [][\A meal \in db.meals :
          \/ \E kept \in db'.meals : \A c \in DOMAIN meal : kept[c] = meal[c]
          \/ last'.op = "delete_meal" /\ IntIn(last'.id) = meal.id]_vars

\* a food was deleted and the meal logged from it is still in the log
C14_Witness ==
    /\ last.op = "delete_food"
    /\ \E meal \in db.meals : meal.food_name \notin FoodNames(db)

\* C15: logging a meal from library food F with multiplier m > 0 creates
\* exactly one meal record: each nutrient field is safe_float(F's field) * m,
\* calories is the text of parse_calorie_value(F.calories) * m, food_name is
\* F's name, date is the chosen date; the library is unchanged.
C15_LoggedMealScaled ==
    [][last'.op = "add_meal" =>
          \E F \in db.food_library :
              /\ F.id = IntIn(last'.id)
              /\ Gt(last'.portion_multiplier, Zero)
              /\ db'.food_library = db.food_library
              /\ \E rec \in db'.meals :
                    /\ rec \notin db.meals
                    /\ db'.meals = db.meals \cup {rec}
                    /\ \A name \in NutrientColumns :
                          rec[name] = NumIn(Mul(safe_float(F[name]),
                                                last'.portion_multiplier))
                    /\ rec.calories =
                           StrIn(FormatFloat(Mul(parse_calorie_value(F.calories),
                                                 last'.portion_multiplier)))
                    /\ rec.food_name = F.food_name
                    /\ rec.date = DateIn(last'.date)]_vars

\* one and a half servings of a food whose fiber is NULL were logged
C15_Witness ==
    /\ last.op = "add_meal"
    /\ last.portion_multiplier = Rat(3, 2)
    /\ \E rec \in db.meals :
          /\ rec.id = IntIn(db.meal_seq)
          /\ rec.calories = StrIn(<<"4", "5", "0", ".", "0">>)
          /\ rec.protein = NumIn(Rat(30, 1))
          /\ rec.fiber = NumIn(Zero)
          /\ rec.date = DateIn(last.date)

\* C16: migrate_database is idempotent and additive: after init_db both
\* tables and all their rows have every required column; running
\* migrate_database again leaves the column sets and all stored rows
\* unchanged; no step removes a column.
C16_MigrationIdempotentAdditive ==
    /\ [](Ready =>
            /\ required_columns \subseteq db.food_cols
            /\ meal_columns \subseteq db.meal_cols
            /\ \A row \in db.food_library : DOMAIN row = db.food_cols
            /\ \A row \in db.meals : DOMAIN row = db.meal_cols)
    /\ [][/\ db.food_cols \subseteq db'.food_cols
          /\ db.meal_cols \subseteq db'.meal_cols
          /\ last'.op = "migrate" => db' = db]_vars

\* the migration was run again over rows an earlier version had stored
C16_Witness ==
    /\ last.op = "migrate"
    /\ \E row \in db.food_library : row.fiber = NoneIn
    /\ \E row \in db.meals : row.time = NoneIn /\ row.fiber = NoneIn

\* the meal records stored with a date in the window of the page shown
InWindow(meal) ==
    IF page = "Today's Log" THEN meal.date = DateIn(Today)
    ELSE \E back \in 0..6 : meal.date = DateIn(Today - back)

Stored == {meal \in db.meals : InWindow(meal)}

\* C17: aggregates are never stale: on every log page the meals shown are
\* exactly the meal records now stored with a date in the page's window,
\* and the totals, averages, meal_count and days_count shown are the
\* aggregate over them.
C17_NeverStale ==
    (Ready /\ page \in LogPages) =>
        /\ Len(df) = Cardinality(Stored)
        /\ Range(df) = Stored
        /\ macros = calculate_macros(df)
        /\ macros.meal_count = Cardinality(Stored)
        /\ macros.days_count = Cardinality({meal.date : meal \in Stored})
        /\ macros.total_protein =
               SumOver([i \in DOMAIN df |-> fillna0(to_numeric(df[i].protein))],
                       DOMAIN df)

\* after logging a meal and after deleting one, while a record outside the
\* window is stored
C17_Witness ==
    /\ Ready
    /\ page \in LogPages
    /\ last.op \in {"add_meal", "delete_meal"}
    /\ db.meals # Stored

\* C18: the band shown for calories is the classification, with kind
\* normal and target 1600, of the aggregate calorie total itself.
C18_CaloriesBandOfTotal ==
    (Ready /\ metrics # NoMetrics) =>
        metrics.status.calories = get_status(macros.total_calories, Rat(1600, 1), "normal")

LimitBands == {"WELL BELOW LIMIT", "OPTIMAL", "APPROACHING LIMIT", "LIMIT EXCEEDED"}
NormalBands == {"CRITICAL LOW", "BELOW OPTIMAL", "TARGET ACHIEVED", "TOO HIGH",
                "DANGEROUSLY HIGH"}
LimitNutrients == {"sodium", "sugar", "saturated_fat", "cholesterol"}

\* C19: the breakdown classifies exactly sodium, sugar, saturated_fat and
\* cholesterol with kind limit and every other nutrient of the target table
\* (calories included) with kind normal; water and ash are summed but not
\* classified.
C19_LimitKindNutrients ==
    (Ready /\ metrics # NoMetrics) =>
        /\ DOMAIN metrics.status = DOMAIN targets
        /\ \A name \in DOMAIN targets :
              IF name \in LimitNutrients
              THEN /\ metrics.status[name] \in LimitBands
                   /\ metrics.status[name] =
                          get_status_limit(metrics.actual[name], targets[name])
              ELSE /\ metrics.status[name] \in NormalBands
                   /\ metrics.status[name] =
                          get_status_normal(metrics.actual[name], targets[name])
        /\ \A name \in {"water", "ash"} :
              /\ name \notin DOMAIN metrics.status
              /\ metrics.actual[name] = safe_sum(Column(df, name))

\* a breakdown with sodium over its limit, protein on target, water summed
C19_Witness ==
    /\ Ready
    /\ metrics # NoMetrics
    /\ metrics.status.sodium = "LIMIT EXCEEDED"
    /\ metrics.status.protein = "TARGET ACHIEVED"
    /\ Gt(metrics.actual.water, Zero)

----------------------------------------------------------------------------
(* Claims about get_meals_by_date_range, checked under SpecQuery *)

Queried == pc = "queried"

\* the stored meals whose date lies between the two dates, bounds included
Between(start_date, end_date) ==
    {meal \in db.meals : start_date <= meal.date.v.n /\ meal.date.v.n <= end_date}

\* C21: get_meals_by_date_range(start, end) returns exactly the stored meals
\* whose date d satisfies start <= d <= end, each once and none outside,
\* ordered by date descending and then time descending; when start > end
\* it returns no meals.
C21_RangeQuery ==
    Queried =>
        /\ Range(df) = Between(last.start_date, last.end_date)
        /\ Len(df) = Cardinality(Range(df))
        /\ \A i \in DOMAIN df, j \in DOMAIN df :
              i < j =>
                  /\ df[i].date.v.n >= df[j].date.v.n
                  /\ (df[i].date.v.n = df[j].date.v.n
                        /\ df[i].time.t = "time" /\ df[j].time.t = "time")
                      => df[i].time.v.n >= df[j].time.v.n
        /\ last.start_date > last.end_date => df = <<>>

\* a query whose bounds are both dates of stored meals, which returns two
\* meals of one date in time order and leaves a stored meal out
C21_Witness ==
    /\ Queried
    /\ Len(df) >= 2
    /\ df[1].date.v.n = last.end_date
    /\ df[Len(df)].date.v.n = last.start_date
    /\ \E i \in DOMAIN df, j \in DOMAIN df :
          /\ i < j
          /\ df[i].date.v.n = df[j].date.v.n
          /\ df[i].time.t = "time" /\ df[j].time.t = "time"
          /\ df[i].time.v.n > df[j].time.v.n
    /\ Range(df) # db.meals

\* C24: delete_meal_from_log(id) removes exactly the meal record with that
\* id when it exists and nothing else: every other meal record and the whole
\* food library are unchanged, and when no meal has that id the state is
\* unchanged and no error occurs.
C24_DeleteExactlyOne ==
    [][last'.op = "delete_meal" =>
          /\ db'.meals = {meal \in db.meals : meal.id # IntIn(last'.id)}
          /\ \A meal \in db'.meals : meal.id # IntIn(last'.id)
          /\ db' = [db EXCEPT !.meals = db'.meals]
          /\ (\A meal \in db.meals : meal.id # IntIn(last'.id)) => db' = db]_vars

\* a meal was deleted from a log that keeps another meal, beside a library
\* that holds a food
C24_Witness ==
    /\ last.op = "delete_meal"
    /\ last.id < db.meal_seq
    /\ \A meal \in db.meals : meal.id # IntIn(last.id)
    /\ \E meal \in db.meals : meal.id.v.n > last.id
    /\ db.food_library # {}

----------------------------------------------------------------------------
(* Claims about the page windows, checked under SpecWindows *)

\* the number of days the title of a log page names
TitleDays(pg) ==
    IF pg = "Today's Log" THEN 1
    ELSE IF pg = "Last 7 Days" THEN 7
    ELSE IF pg = "Last 15 Days" THEN 15
    ELSE 30

\* C22: the page windows match their titles: 'Today's Log' queries exactly
\* the single date today, 'Last 7 Days', 'Last 15 Days' and 'Last 30 Days'
\* exactly 7, 15 and 30 consecutive dates ending with and including today;
\* a meal dated after today is in none of these windows.
C22_PageWindows ==
    (Ready /\ page \in AllLogPages) =>
        /\ Range(df) = {meal \in db.meals :
                            /\ Today - TitleDays(page) < meal.date.v.n
                            /\ meal.date.v.n <= Today}
        /\ \A meal \in Range(df) : meal.date.v.n <= Today

\* 'Last 15 Days' shows the meal of 14 days ago and leaves out the meals
\* of 15 days ago and of tomorrow
C22_Witness ==
    /\ Ready
    /\ page = "Last 15 Days"
    /\ \E meal \in Range(df) : meal.date.v.n = Today - 14
    /\ \E meal \in db.meals : meal.date.v.n = Today - 15
    /\ \E meal \in db.meals : meal.date.v.n = Today + 1

\* C23: the 'Download All Meal Log Data as CSV' export contains every meal
\* record currently in the meal log, whatever date it was logged under.
C23_ExportAllMeals ==
    (Ready /\ page = "Settings") => Range(all_meals_df) = db.meals

----------------------------------------------------------------------------
(* Claims about the forms of the Food Library page, checked under Spec *)

\* the normalized calories of a text are strictly greater than 0
PositiveCalories(calories) == Gt(parse_calorie_value(StrIn(calories)), Zero)

\* C25: in every state reachable through the Save to Library and Update
\* Food forms (with deletes interleaved), every food library entry has a
\* non-empty food_name and a calories field whose normalized value is
\* strictly greater than 0; a save or update whose name is empty or whose
\* normalized calories are <= 0 is rejected and changes nothing.
C25_LibraryEntriesValid ==
    /\ [](\A row \in db.food_library :
             /\ row.food_name.t = "str" /\ row.food_name.s # <<>>
             /\ Gt(parse_calorie_value(row.calories), Zero))
    /\ [][/\ (last'.op \in {"add_food", "update_food"}) =>
                 (last'.food_name # <<>> /\ PositiveCalories(last'.calories))
          /\ (last'.op = "rejected") =>
                 /\ db' = db
                 /\ last'.food_name = <<>> \/ ~PositiveCalories(last'.calories)]_vars

\* a form with a name and the calories 0 was rejected beside a library
\* that holds two foods
C25_Witness ==
    /\ Ready
    /\ last.op = "rejected"
    /\ last.food_name # <<>>
    /\ ~PositiveCalories(last.calories)
    /\ Cardinality(db.food_library) = 2

----------------------------------------------------------------------------
(* Claims about the daily health summary, checked under Spec *)

\* C26: whenever Today's Log contains at least one meal, requesting the
\* daily health summary completes and produces a report whose date is the
\* date of the summarised meals (today), in every reachable state,
\* including after every food has been deleted from the library and
\* whatever date is selected in the meal form.
C26_SummaryDatedToday ==
    (Ready /\ last.op = "summary") => (last.ok /\ last.date = Today)

----------------------------------------------------------------------------
(* Claims about the library functions called from two sessions, checked *)
(* under SpecSessions                                                   *)

\* the entry of the id holds the values the call gave
Updated(library, call) ==
    \E row \in library :
        /\ row.id = IntIn(call.id)
        /\ row.food_name = StrIn(call.food_name)
        /\ row.calories = StrIn(call.form.calories)
        /\ \A name \in NutrientColumns : row[name] = NumIn(call.form.nutrients[name])

\* C27: update_food_in_library reports success (True) only when a library
\* entry with the given id exists and has been updated to the given values;
\* when no entry has that id (e.g. it was deleted in another session) it
\* reports failure and changes nothing, and when the new name collides with
\* another entry it reports failure and changes nothing.
C27_UpdateSuccessMeansUpdated ==
    [][\A s \in Sessions :
          (/\ sessions[s].call.op = "update_food"
           /\ sessions[s].pc # "returned"
           /\ sessions'[s].pc = "returned") =>
              IF sessions'[s].success
              THEN Updated(db'.food_library, sessions[s].call)
              ELSE db' = db]_vars

\* the entries of the library that hold the name
Named(food_name) == {row \in db.food_library : row.food_name = StrIn(food_name)}

\* both sessions have returned from add_food_to_library calls with the same
\* name, which the library did not hold when either call started
SameNewName(s, o) ==
    /\ s # o
    /\ sessions[s].pc = "returned" /\ sessions[o].pc = "returned"
    /\ sessions[s].call.op = "add_food" /\ sessions[o].call.op = "add_food"
    /\ sessions[s].call.food_name = sessions[o].call.food_name
    /\ sessions[s].call.fresh /\ sessions[o].call.fresh

\* C28: when two sessions concurrently call add_food_to_library with the
\* same new food_name, under every interleaving at most one call returns
\* success and the library ends with at most one entry of that name; the
\* other call returns failure without adding an entry.
C28_OneConcurrentAddWins ==
    \A s \in Sessions, o \in Sessions :
        SameNewName(s, o) =>
            /\ ~(sessions[s].success /\ sessions[o].success)
            /\ Cardinality(Named(sessions[s].call.food_name)) <= 1
            /\ (Named(sessions[s].call.food_name) # {})
                   = (sessions[s].success \/ sessions[o].success)

\* two overlapping calls with the same new name with different values:
\* one returned True, the other False, and the library holds one entry
C28_Witness ==
    \E s \in Sessions, o \in Sessions :
        /\ SameNewName(s, o)
        /\ sessions[s].call.form # sessions[o].call.form
        /\ sessions[s].success /\ ~sessions[o].success
        /\ Cardinality(Named(sessions[s].call.food_name)) = 1
        /\ Cardinality(db.food_library) = 2

----------------------------------------------------------------------------
(* Claims about the calories of a logged meal, checked under SpecLog *)

\* the meal the step has logged and the food it was logged from
LoggedMeal == CHOOSE meal \in db'.meals : meal.id = IntIn(db'.meal_seq)
LoggedFood == CHOOSE food \in db.food_library : food.id = IntIn(last'.id)

\* C29: round trip of logged calories: for every meal created by Add to Log
\* from food F with multiplier m, parse_calorie_value(meal.calories) equals
\* parse_calorie_value(F.calories) * m, so the stored calorie text is always
\* a plain number (never a range) and the aggregated calorie total of the
\* log equals the sum of the scaled food calories.
C29_LoggedCaloriesRoundTrip ==
    [][(last'.op = "add_meal" /\ db'.meal_seq = db.meal_seq + 1) =>
          /\ parse_calorie_value(LoggedMeal.calories)
                 = Mul(parse_calorie_value(LoggedFood.calories), last'.portion_multiplier)
          /\ ParseFloat(LoggedMeal.calories.s).ok
          /\ macros'.total_calories
                 = IF LoggedMeal \in Range(df')
                   THEN Add(macros.total_calories,
                            Mul(parse_calorie_value(LoggedFood.calories),
                                last'.portion_multiplier))
                   ELSE macros.total_calories]_vars

----------------------------------------------------------------------------
(* Claims about the calorie burn calculator, checked under SpecBurn *)

\* C30: in the calorie burn calculator, for every calories-eaten total >= 0
\* and every burned amount > 0, net = eaten - burned and target remaining =
\* 1600 - net, and the value passed to the progress bar is always within
\* [0, 1]: 0 when net < 0, net/1600 when 0 <= net <= 1600, and 1 when
\* net > 1600.
C30_NetBalanceAndProgress ==
    (calc.set /\ Geq(calc.total_calories_eaten, Zero) /\ Gt(calc.calories_burned, Zero)) =>
        LET net == Sub(calc.total_calories_eaten, calc.calories_burned)
        IN  /\ calc.net_calories = net
            /\ calc.net_remaining = Sub(Rat(1600, 1), net)
            /\ Leq(Zero, calc.progress) /\ Leq(calc.progress, One)
            /\ calc.progress = IF Lt(net, Zero) THEN Zero
                               ELSE IF Leq(net, Rat(1600, 1)) THEN DivInt(net, 1600)
                               ELSE One

\* a balance just above the target: the bar is full although net/1600 > 1
C30_Witness ==
    /\ calc.set
    /\ Gt(calc.total_calories_eaten, Zero) /\ Gt(calc.calories_burned, Zero)
    /\ Gt(calc.net_calories, Rat(1600, 1))
    /\ Lt(calc.net_calories, Rat(1601, 1))
    /\ calc.progress = One

====
